---- MODULE Spec2Model ----
(***************************************************************************)
(* esbuild-loader: the webpack loader ESBuildLoader (multi-file,           *)
(* dependency-aware version) as a state machine.                           *)
(*                                                                         *)
(* JavaScript runs each loader invocation to its first `await` without     *)
(* interruption, so the synchronous part of ESBuildLoader (option          *)
(* handling, tsconfig resolution, the call of the transformer) is one      *)
(* action, and the settling of the transformer's promise is another.       *)
(* Several invocations may be awaiting their transformer at once.          *)
(***************************************************************************)
EXTENDS Integers, Sequences, FiniteSets, TLC

\* ------------------------------------------------------------------ bounds

\* Loader invocations in one build process.
MaxInvocations == 2

\* ------------------------------------------------------------ JavaScript values

\* A value carries its type tag t (and its content v).
Absent == [t |-> "absent"]          \* the key is not in the object
Undefined == [t |-> "undefined"]
Num(n) == [t |-> "number", v |-> n]
Str(s) == [t |-> "string", v |-> s]
Fn(name) == [t |-> "function", v |-> name]
Obj(fields) == [t |-> "object", v |-> fields]

\* typeof x
TypeOf(x) == IF x.t = "absent" THEN "undefined" ELSE x.t

\* obj.k
Member(obj, k) ==
    IF obj.t = "object" /\ k \in DOMAIN obj.v THEN obj.v[k] ELSE Undefined

\* the conditions of `x && ...`, `if (x)`, `!x`
Truthy(x) ==
    /\ x.t \notin {"absent", "undefined"}
    /\ (x.t = "string" => x.v # "")
    /\ (x.t = "number" => x.v # 0)

\* x ?? d
Nullish(x, d) == IF x.t \in {"absent", "undefined"} THEN d ELSE x

\* 'k' in obj, for an option of the options bag
HasKeyDefined(x) == x.t \notin {"absent", "undefined"}

HasKey(x) == x # Absent

\* ----------------------------------------------------------------- paths
\* A path is the sequence of its "/"-separated segments; an absolute path
\* starts with the empty segment ("/p/a" is <<"", "p", "a">>).  A resource
\* path keeps its last segment apart, as the sequence of its "."-separated
\* parts ("i.d.ts" is <<"i", "d", "ts">>).

Cwd == <<"", "p">>

IsAbsolute(p) == Len(p) > 0 /\ p[1] = ""

RECURSIVE NormalizeSegments(_, _)
NormalizeSegments(segs, acc) ==
    IF segs = <<>> THEN acc
    ELSE LET s == Head(segs)
         IN  IF s = "." \/ s = ""
             THEN NormalizeSegments(Tail(segs), acc)
             ELSE IF s = ".."
             THEN NormalizeSegments(Tail(segs),
                      IF acc = <<>> THEN acc ELSE SubSeq(acc, 1, Len(acc) - 1))
             ELSE NormalizeSegments(Tail(segs), Append(acc, s))

\* path.resolve(p) with one argument
PathResolve(p) ==
    <<"">> \o NormalizeSegments(IF IsAbsolute(p) THEN p ELSE Cwd \o p, <<>>)

Resources ==
    { [dir |-> <<"", "p", "src">>, base |-> <<"a", "ts">>],
      [dir |-> <<"", "p", "lib">>, base |-> <<"b", "js">>],
      [dir |-> <<"", "p", "node_modules", "k">>, base |-> <<"i", "js">>],
      [dir |-> <<"", "p", "node_modules", "k">>, base |-> <<"i", "mts">>],
      [dir |-> <<"", "p", "node_modules", "k">>, base |-> <<"tsx">>] }

ProjectFile == [dir |-> <<"", "p", "src">>, base |-> <<"a", "ts">>]

\* resourcePath.includes(`${path.sep}node_modules${path.sep}`)
IncludesNodeModules(r) ==
    \E i \in 2..Len(r.dir) : r.dir[i] = "node_modules"

\* tsExtensionsPattern = /\.(?:[cm]?ts|[tj]sx)$/
TsExtensions == {"ts", "cts", "mts", "tsx", "jsx"}

TsExtensionsPatternNoDot(r) ==
    r.base[Len(r.base)] \in TsExtensions

TsExtensionsPatternTest(r) ==
    Len(r.base) >= 2 /\ r.base[Len(r.base)] \in TsExtensions

\* ------------------------------------------------------- the options bag

\* options.tsconfig
TsconfigPaths ==
    { <<"tsconfig.json">>, <<".", "tsconfig.json">>, <<"", "p", "b.json">> }

TsconfigOptions == {Absent} \cup {Str(p) : p \in TsconfigPaths}

\* Parsed tsconfig contents: compiler options and the directories included.
ConfigStrict == Obj([compilerOptions |-> "strict", include |-> {<<"", "p", "src">>}])
ConfigJsx == Obj([compilerOptions |-> "jsx", include |-> {<<"", "p", "node_modules">>}])
ConfigRaw == Obj([compilerOptions |-> "useDefineForClassFields"])

Configs == {ConfigStrict, ConfigJsx}

\* options.tsconfigRaw
TsconfigRawOptions == {Absent, Undefined, ConfigRaw}

\* options.implementation: none, {}, { transform: 123 }, a custom transformer
Implementations ==
    { Absent,
      Obj(<<>>),
      Obj([transform |-> Num(123)]),
      Obj([transform |-> Fn("custom")]) }

\* options.supported
SupportedOptions ==
    { Absent,
      Obj([f \in {"dynamic-import"} |-> FALSE]),
      Obj([f \in {"bigint"} |-> TRUE]) }

\* options.target, options.loader
TargetOptions == {Absent, Str("es2020")}
LoaderOptions == {Absent}

OptionsBags ==
    [ implementation : Implementations,
      tsconfig : TsconfigOptions,
      tsconfigRaw : TsconfigRawOptions,
      supported : SupportedOptions,
      target : TargetOptions,
      loader : LoaderOptions ]

\* The invocations explored: the options tsconfig resolution reads
\* (implementation, tsconfig, tsconfigRaw) with every resource, and those it
\* does not read (supported, target, this.sourceMap) with every
\* implementation on a project file.
Invocations ==
    { c \in [resourcePath : Resources, options : OptionsBags, sourceMap : BOOLEAN] :
        \/ c.options.supported = Absent /\ c.options.target = Absent /\ ~c.sourceMap
        \/ /\ c.resourcePath = ProjectFile
           /\ c.options.tsconfig = Absent
           /\ c.options.tsconfigRaw = Absent }

\* ---------------------------------------------------------- get-tsconfig
\* What the calls into get-tsconfig can do, as seen from the loader.

ParseFailure == [instanceOfError |-> TRUE, message |-> "Unexpected token"]
NonErrorThrow == [instanceOfError |-> FALSE, message |-> "thrown"]

\* parseTsconfig(path, cache): the parsed content, or a throw
ParseOutcomes == [thrown : {Absent}, value : Configs]
                  \cup [thrown : {ParseFailure}, value : {Undefined}]

\* getTsconfig(resourcePath, 'tsconfig.json', cache): null, a record, or a throw
DiscoveredPath == <<"", "p", "tsconfig.json">>

DiscoveryOutcomes ==
    [thrown : {Absent}, value : {Undefined} \cup
         {Obj([config |-> c, path |-> DiscoveredPath]) : c \in Configs}]
    \cup [thrown : {ParseFailure, NonErrorThrow}, value : {Undefined}]

IsPrefix(a, b) == Len(a) <= Len(b) /\ SubSeq(b, 1, Len(a)) = a

\* createFilesMatcher(tsconfig)(resourcePath): the config when the file is
\* matched by its include rules, undefined when it is not
FilesMatcher(tsconfig, r) ==
    IF \E d \in tsconfig.v.config.v.include : IsPrefix(d, r.dir)
    THEN tsconfig.v.config
    ELSE Undefined

\* ----------------------------------------------------------------- state

VARIABLES
    tsconfigCache,   \* the module's Map: cache key -> { config, path }; the
                     \* entries get-tsconfig keeps in it under its own keys
                     \* are left out (call.handed: the Map was passed to it)
    parseCalls,      \* resolved path -> number of parseTsconfig calls for it
    parseReturns,    \* resolved path -> number of those calls that returned
    inv,             \* slot -> the invocation: its position and its `done` calls
    call             \* the latest synchronous run of ESBuildLoader, as observed

vars == <<tsconfigCache, parseCalls, parseReturns, inv, call>>

Slots == 1..MaxInvocations

FullPaths == {PathResolve(p) : p \in TsconfigPaths}

\* `esbuild-loader:${tsconfigFullPath}`
CacheKey(full) == <<"esbuild-loader:", full>>

\* tsconfigCache.get(key)
CacheGetMiss(cache, key) == Undefined

CacheGet(cache, key) == IF key \in DOMAIN cache THEN cache[key] ELSE Undefined

\* tsconfigCache.set(key, value)
CacheSet(cache, key, value) ==
    [k \in DOMAIN cache \cup {key} |-> IF k = key THEN value ELSE cache[k]]

\* An invocation: its position, this.sourceMap, the transformer it awaits,
\* what that transformer resolved with, and the calls of `done` so far.
IdleInvocation ==
    [ pc |-> "idle", sourceMap |-> FALSE, transform |-> Absent,
      result |-> Absent, done |-> <<>> ]

NoCall ==
    [ slot |-> 0, resource |-> Absent, options |-> Absent, sourceMap |-> FALSE,
      gets |-> {}, sets |-> {}, handed |-> FALSE, parsed |-> <<>>,
      discovery |-> Absent, warnings |-> <<>>, request |-> Absent,
      thrown |-> Absent ]

Init ==
    /\ tsconfigCache = <<>>
    /\ parseCalls = [f \in FullPaths |-> 0]
    /\ parseReturns = [f \in FullPaths |-> 0]
    /\ inv = [i \in Slots |-> IdleInvocation]
    /\ call = NoCall

\* ---------------------------------------------------------------- errors

TypeErrorPrefix ==
    "esbuild-loader: options.implementation.transform must be an ESBuild transform function. Received "

ImplementationErrorOfObject(implementation) ==
    [ name |-> "TypeError",
      message |-> <<TypeErrorPrefix, TypeOf(implementation)>> ]

ImplementationError(implementation) ==
    [ name |-> "TypeError",
      message |-> <<TypeErrorPrefix, TypeOf(Member(implementation, "transform"))>> ]

TsconfigErrorPrefix == "[esbuild-loader] Error parsing tsconfig.json:\n"

TsconfigError(error) ==
    [ name |-> "Error", message |-> <<TsconfigErrorPrefix, error.message>> ]

MismatchWarning(tsconfigFullPath, resourcePath) ==
    [ name |-> "Error",
      message |-> <<"esbuild-loader] The specified tsconfig at \"", tsconfigFullPath,
                    "\" was applied to the file \"", resourcePath,
                    "\" but does not match its \"include\" patterns">> ]

\* ------------------------------------------------- tsconfig resolution
\* What the resolution of one invocation did: how it left (exit), the cache
\* after it, the cache keys it read and wrote, whether the cache was handed to
\* get-tsconfig, the paths parsed, what discovery returned, the warnings it
\* emitted and the tsconfigRaw it set (Absent: the key was not set).

NoResolution(cache) ==
    [ exit |-> "continue", error |-> Absent, cache |-> cache, gets |-> {},
      sets |-> {}, handed |-> FALSE, parsed |-> <<>>, discovery |-> Absent,
      warnings |-> <<>>, tsconfigRaw |-> Absent ]

\* transformOptions.tsconfigRaw = tsconfig.config
ExplicitTsconfigRawIfMatched(tsconfig, matches) == matches

ExplicitTsconfigRaw(tsconfig, matches) == tsconfig.v.config

\* if (!isDependency && tsconfigPath) { ... }
ExplicitBranch(cache, tsconfigPath, resourcePath, parseOutcome) ==
    LET tsconfigFullPath == PathResolve(tsconfigPath.v)
        cacheKey == CacheKey(tsconfigFullPath)
        cached == CacheGet(cache, cacheKey)
        miss == ~Truthy(cached)
        tsconfig == IF miss
                    THEN Obj([config |-> parseOutcome.value, path |-> tsconfigFullPath])
                    ELSE cached
        matches == FilesMatcher(tsconfig, resourcePath)
    IN  IF miss /\ parseOutcome.thrown # Absent
        THEN [ NoResolution(cache) EXCEPT
                 !.exit = "throw", !.error = parseOutcome.thrown,
                 !.gets = {cacheKey}, !.handed = TRUE,
                 !.parsed = <<tsconfigFullPath>> ]
        ELSE [ NoResolution(cache) EXCEPT
                 !.cache = IF miss THEN CacheSet(cache, cacheKey, tsconfig) ELSE cache,
                 !.gets = {cacheKey},
                 !.sets = IF miss THEN {cacheKey} ELSE {},
                 !.handed = miss,
                 !.parsed = IF miss THEN <<tsconfigFullPath>> ELSE <<>>,
                 !.warnings = IF ~Truthy(matches)
                              THEN <<MismatchWarning(tsconfigFullPath, resourcePath)>>
                              ELSE <<>>,
                 !.tsconfigRaw = ExplicitTsconfigRaw(tsconfig, matches) ]

\* transformOptions.tsconfigRaw = fileMatcher(resourcePath)
DiscoveredTsconfigRawForced(tsconfig, resourcePath) == tsconfig.v.config

DiscoveredTsconfigRaw(tsconfig, resourcePath) == FilesMatcher(tsconfig, resourcePath)

\* if (isDependency) { this.emitWarning(tsconfigError) } else { return done(tsconfigError) }
DiscoveryErrorAlwaysFatal(isDependency) == TRUE

DiscoveryErrorIsFatal(isDependency) == ~isDependency

\* else { /* Detect tsconfig file */ ... }
DiscoveryBranch(cache, resourcePath, isDependency, discoveryOutcome) ==
    LET error == discoveryOutcome.thrown
        threw == error # Absent
        tsconfig == discoveryOutcome.value
        base == [ NoResolution(cache) EXCEPT
                    !.handed = TRUE, !.discovery = discoveryOutcome ]
    IN  IF threw /\ error.instanceOfError /\ DiscoveryErrorIsFatal(isDependency)
        THEN [ base EXCEPT !.exit = "done", !.error = TsconfigError(error) ]
        ELSE [ base EXCEPT
                 !.warnings = IF threw /\ error.instanceOfError
                              THEN <<TsconfigError(error)>>
                              ELSE <<>>,
                 !.tsconfigRaw = IF Truthy(tsconfig)
                                 THEN DiscoveredTsconfigRaw(tsconfig, resourcePath)
                                 ELSE Absent ]

\* The branch the guards of the resolution take:
\* if (!('tsconfigRaw' in transformOptions) && (!isDependency || ts file))
\*     if (!isDependency && tsconfigPath) ... else ...
ResolutionBranch(options, resourcePath) ==
    LET isDependency == IncludesNodeModules(resourcePath)
    IN  IF /\ ~HasKey(options.tsconfigRaw)
           /\ (~isDependency \/ TsExtensionsPatternTest(resourcePath))
        THEN IF ~isDependency /\ Truthy(options.tsconfig)
             THEN "explicit"
             ELSE "discovery"
        ELSE "none"

Resolution(cache, options, resourcePath, parseOutcome, discoveryOutcome) ==
    LET branch == ResolutionBranch(options, resourcePath)
    IN  CASE branch = "explicit" ->
               ExplicitBranch(cache, options.tsconfig, resourcePath, parseOutcome)
          [] branch = "discovery" ->
               DiscoveryBranch(cache, resourcePath, IncludesNodeModules(resourcePath),
                               discoveryOutcome)
          [] branch = "none" -> NoResolution(cache)

\* transformOptions.supported = { 'dynamic-import': true, ...transformOptions.supported }
SupportedForced(supported) ==
    LET given == IF supported.t = "object" THEN supported.v ELSE <<>>
    IN  Obj([f \in {"dynamic-import"} \cup DOMAIN given |->
                IF f = "dynamic-import" THEN TRUE ELSE given[f]])

Supported(supported) ==
    LET given == IF supported.t = "object" THEN supported.v ELSE <<>>
    IN  Obj([f \in {"dynamic-import"} \cup DOMAIN given |->
                IF f \in DOMAIN given THEN given[f] ELSE TRUE])

\* The object passed to transform(source, transformOptions).
TransformOptions(options, sourceMap, resourcePath, tsconfigRaw) ==
    [ target |-> Nullish(options.target, Str("es2015")),
      loader |-> Nullish(options.loader, Str("default")),
      sourcemap |-> sourceMap,
      sourcefile |-> resourcePath,
      tsconfigRaw |-> IF HasKey(options.tsconfigRaw) THEN options.tsconfigRaw
                      ELSE tsconfigRaw,
      supported |-> Supported(options.supported) ]

\* implementation && typeof implementation.transform !== 'function'
InvalidImplementation(implementation) ==
    /\ Truthy(implementation)
    /\ TypeOf(Member(implementation, "transform")) # "function"

\* implementation?.transform ?? defaultEsbuildTransform
Transform(implementation) ==
    Nullish(Member(implementation, "transform"), Fn("esbuild"))

Null == [t |-> "null"]

\* done(err, code, map); done(err) passes neither code nor map
Done(err, code, map) == [err |-> err, code |-> code, map |-> map]

\* ------------------------------------------------------------- ESBuildLoader
\* The synchronous part of one invocation, up to `await transform(...)` or to
\* its earlier end.

ESBuildLoader(i, resourcePath, options, sourceMap, parseOutcome, discoveryOutcome) ==
    /\ inv[i].pc = "idle"
    /\ \A j \in Slots : j < i => inv[j].pc # "idle"
    /\ LET observed == [ NoCall EXCEPT !.slot = i, !.resource = resourcePath,
                                       !.options = options, !.sourceMap = sourceMap ]
       IN  IF InvalidImplementation(options.implementation)
           THEN /\ inv' = [inv EXCEPT ![i] =
                      [ IdleInvocation EXCEPT
                          !.pc = "returned", !.sourceMap = sourceMap,
                          !.done = <<Done(ImplementationError(options.implementation),
                                          Absent, Absent)>> ]]
                /\ call' = observed
                /\ UNCHANGED <<tsconfigCache, parseCalls, parseReturns>>
           ELSE LET r == Resolution(tsconfigCache, options, resourcePath,
                                    parseOutcome, discoveryOutcome)
                    transformOptions ==
                        TransformOptions(options, sourceMap, resourcePath, r.tsconfigRaw)
                IN  /\ tsconfigCache' = r.cache
                    /\ parseCalls' =
                         [f \in FullPaths |->
                            parseCalls[f] + Cardinality({n \in 1..Len(r.parsed) : r.parsed[n] = f})]
                    /\ parseReturns' =
                         [f \in FullPaths |->
                            parseReturns[f] +
                            IF r.exit = "throw" THEN 0
                            ELSE Cardinality({n \in 1..Len(r.parsed) : r.parsed[n] = f})]
                    /\ call' = [ observed EXCEPT
                                   !.gets = r.gets, !.sets = r.sets, !.handed = r.handed,
                                   !.parsed = r.parsed, !.discovery = r.discovery,
                                   !.warnings = r.warnings,
                                   !.thrown = IF r.exit = "throw" THEN r.error ELSE Absent,
                                   !.request = IF r.exit = "continue"
                                               THEN transformOptions ELSE Absent ]
                    /\ inv' = [inv EXCEPT ![i] =
                         [ IdleInvocation EXCEPT
                             !.pc = CASE r.exit = "continue" -> "awaiting"
                                      [] r.exit = "done" -> "returned"
                                      [] r.exit = "throw" -> "rejected",
                             !.sourceMap = sourceMap,
                             !.transform = IF r.exit = "continue"
                                           THEN Transform(options.implementation)
                                           ELSE Absent,
                             !.done = IF r.exit = "done"
                                      THEN <<Done(r.error, Absent, Absent)>>
                                      ELSE <<>> ]]

\* ---------------------------------------------------------- the transformer

ValidMapText == "{\"version\":3}"
InvalidMapText == "not json"

\* JSON.parse(text)
JSONParses(text) == text = ValidMapText

JSONParse(text) == Obj([version |-> 3])

JSONSyntaxError == [name |-> "SyntaxError", message |-> <<"Unexpected token">>]
TransformFailure == [name |-> "Error", message |-> <<"Transform failed with 1 error">>]

\* What a transformer can resolve with.  esbuild returns a serialized map
\* when `sourcemap` is set and the empty string when it is not; a custom
\* implementation returns what it likes.
TransformResults(transform, sourcemap) ==
    IF transform = Fn("esbuild")
    THEN { [code |-> Str("js"), map |-> Str(IF sourcemap THEN ValidMapText ELSE "")] }
    ELSE [ code : {Str("js")},
           map : {Undefined, Str(""), Str(ValidMapText), Str(InvalidMapText)} ]

\* map && JSON.parse(map)
ForwardedMapSerialized(map) == map

ForwardedMap(map) == IF Truthy(map) THEN JSONParse(map.v) ELSE map

\* try { const { code, map } = await transform(...); done(null, code, ...) }
\* catch (error) { done(error) }, when the promise resolves
TransformResolves(i, result) ==
    /\ inv[i].pc = "awaiting"
    /\ result \in TransformResults(inv[i].transform, inv[i].sourceMap)
    /\ inv' = [inv EXCEPT ![i] =
          [ @ EXCEPT
              !.pc = "returned",
              !.result = result,
              !.done = IF Truthy(result.map) /\ ~JSONParses(result.map.v)
                       THEN Append(@, Done(JSONSyntaxError, Absent, Absent))
                       ELSE Append(@, Done(Null, result.code, ForwardedMap(result.map))) ]]
    /\ UNCHANGED <<tsconfigCache, parseCalls, parseReturns, call>>

\* the same, when the promise rejects
TransformRejects(i) ==
    /\ inv[i].pc = "awaiting"
    /\ inv' = [inv EXCEPT ![i] =
          [ @ EXCEPT !.pc = "returned",
                     !.done = Append(@, Done(TransformFailure, Absent, Absent)) ]]
    /\ UNCHANGED <<tsconfigCache, parseCalls, parseReturns, call>>

NoOutcome == [thrown |-> Absent, value |-> Undefined]

Invoke ==
    \E i \in Slots :
        /\ inv[i].pc = "idle"
        /\ \E c \in Invocations :
             LET branch == ResolutionBranch(c.options, c.resourcePath)
             IN  \E parseOutcome \in
                        IF branch = "explicit" THEN ParseOutcomes ELSE {NoOutcome},
                    discoveryOutcome \in
                        IF branch = "discovery" THEN DiscoveryOutcomes ELSE {NoOutcome} :
                     ESBuildLoader(i, c.resourcePath, c.options, c.sourceMap,
                                   parseOutcome, discoveryOutcome)

Resolve ==
    \E i \in Slots :
        \E result \in TransformResults(inv[i].transform, inv[i].sourceMap) :
            TransformResolves(i, result)

Reject == \E i \in Slots : TransformRejects(i)

Next == Invoke \/ Resolve \/ Reject

Spec == Init /\ [][Next]_vars

\* ------------------------------------------------- the single-config version
\* The earlier ESBuildLoader: no `tsconfig` option, no cache; the project's
\* tsconfig is loaded once by the module ./tsconfig and applied to every file
\* unless the caller gives tsconfigRaw.

\* import { tsconfig } from './tsconfig'
ProjectTsconfigs == {Undefined, ConfigStrict.v}

\* transformOptions of the earlier version: the options are passed on as
\* they are, and tsconfigRaw defaults to the project's tsconfig
TransformOptionsEarly(options, sourceMap, resourcePath, tsconfig) ==
    [ target |-> Nullish(options.target, Str("es2015")),
      loader |-> Nullish(options.loader, Str("default")),
      sourcemap |-> sourceMap,
      sourcefile |-> resourcePath,
      tsconfigRaw |-> IF HasKey(options.tsconfigRaw) THEN options.tsconfigRaw
                      ELSE IF tsconfig = Undefined THEN Undefined ELSE Obj(tsconfig),
      supported |-> options.supported ]

ESBuildLoaderEarly(i, resourcePath, options, sourceMap, tsconfig) ==
    /\ inv[i].pc = "idle"
    /\ \A j \in Slots : j < i => inv[j].pc # "idle"
    /\ LET invalid == InvalidImplementation(options.implementation)
       IN  /\ inv' = [inv EXCEPT ![i] =
                 [ IdleInvocation EXCEPT
                     !.pc = IF invalid THEN "returned" ELSE "awaiting",
                     !.sourceMap = sourceMap,
                     !.transform = IF invalid THEN Absent
                                   ELSE Transform(options.implementation),
                     !.done = IF invalid
                              THEN <<Done(ImplementationError(options.implementation),
                                          Absent, Absent)>>
                              ELSE <<>> ]]
           /\ call' = [ NoCall EXCEPT
                          !.slot = i, !.resource = resourcePath,
                          !.options = options, !.sourceMap = sourceMap,
                          !.request = IF invalid THEN Absent
                                      ELSE TransformOptionsEarly(options, sourceMap,
                                                                 resourcePath, tsconfig) ]
    /\ UNCHANGED <<tsconfigCache, parseCalls, parseReturns>>

InvokeEarly ==
    \E i \in Slots :
        /\ inv[i].pc = "idle"
        /\ \E c \in Invocations, tsconfig \in ProjectTsconfigs :
             /\ c.options.tsconfig = Absent
             /\ ESBuildLoaderEarly(i, c.resourcePath, c.options, c.sourceMap, tsconfig)

NextEarly == InvokeEarly \/ Resolve \/ Reject

SpecEarly == Init /\ [][NextEarly]_vars

\* ================================================================ properties
\* The vocabulary of the properties, stated on what an invocation was given
\* and what it was seen to do.

Invoked == call.slot # 0

\* the path contains the node_modules directory segment
InNodeModules(r) == \E n \in 1..Len(r.dir) : r.dir[n] = "node_modules"

\* the extension is one of .ts, .cts, .mts, .tsx, .jsx
TsFamily(r) ==
    /\ Len(r.base) > 1
    /\ \/ r.base[Len(r.base)] = "ts"
       \/ r.base[Len(r.base)] = "cts"
       \/ r.base[Len(r.base)] = "mts"
       \/ r.base[Len(r.base)] = "tsx"
       \/ r.base[Len(r.base)] = "jsx"

ExplicitPathSupplied == call.options.tsconfig.t = "string"
RawSupplied == call.options.tsconfigRaw.t # "absent"
ImplementationRejected ==
    /\ call.options.implementation.t = "object"
    /\ Member(call.options.implementation, "transform").t # "function"

TransformerCalled == call.request # Absent

\* a configuration reached the transform request
Injected == TransformerCalled /\ call.request.tsconfigRaw.t = "object"

\* neither the cache nor get-tsconfig was touched
ResolutionDidNotRun ==
    /\ call.gets = {} /\ call.sets = {} /\ ~call.handed
    /\ call.parsed = <<>> /\ call.discovery = Absent

ExplicitKey == <<"esbuild-loader:", PathResolve(call.options.tsconfig.v)>>

IncludeMatches(config, r) == \E d \in config.v.include : IsPrefix(d, r.dir)

\* C1, as amended: for every non-dependency file given an explicit tsconfig
\* path and no tsconfigRaw, whenever the transformer is called its tsconfigRaw
\* is the content of the record held for the resolved path, matching or not,
\* and the mismatch warning (naming the resolved path and the file) was emitted
\* exactly when the file does not match.
C1_ExplicitApplied ==
    (Invoked /\ ExplicitPathSupplied /\ ~RawSupplied /\ TransformerCalled
     /\ ~InNodeModules(call.resource))
    => /\ ExplicitKey \in DOMAIN tsconfigCache
       /\ tsconfigCache[ExplicitKey].v.path = PathResolve(call.options.tsconfig.v)
       /\ call.request.tsconfigRaw = tsconfigCache[ExplicitKey].v.config
       /\ call.warnings =
            IF IncludeMatches(tsconfigCache[ExplicitKey].v.config, call.resource)
            THEN <<>>
            ELSE <<MismatchWarning(PathResolve(call.options.tsconfig.v), call.resource)>>

\* C1 as claimed: the same for all files, dependency files included.
C1_Original ==
    (Invoked /\ ExplicitPathSupplied /\ ~RawSupplied /\ TransformerCalled)
    => /\ ExplicitKey \in DOMAIN tsconfigCache
       /\ call.request.tsconfigRaw = tsconfigCache[ExplicitKey].v.config
       /\ call.warnings =
            IF IncludeMatches(tsconfigCache[ExplicitKey].v.config, call.resource)
            THEN <<>>
            ELSE <<MismatchWarning(PathResolve(call.options.tsconfig.v), call.resource)>>

\* A project file outside the explicit configuration's include rules went to
\* the transformer with that configuration and a warning.
C1_Witness ==
    /\ Invoked /\ ExplicitPathSupplied /\ ~RawSupplied /\ TransformerCalled
    /\ ~InNodeModules(call.resource)
    /\ call.request.tsconfigRaw = ConfigJsx
    /\ Len(call.warnings) = 1

DiscoveryRan == call.discovery # Absent
DiscoveryFound == DiscoveryRan /\ call.discovery.value.t = "object"
DiscoveryFoundNothing ==
    DiscoveryRan /\ call.discovery.thrown = Absent /\ call.discovery.value = Undefined

\* C2: for every file left to discovery (no tsconfigRaw, and no explicit path
\* or a TypeScript-family dependency file): a configuration getTsconfig finds
\* is injected when the file matches its rules, and on non-match nothing is
\* injected and nothing is warned; nothing is injected unless a matching
\* configuration was found; when none is found the transformer is called with
\* nothing injected.
C2_DiscoveryAppliesOnMatch ==
    (Invoked /\ ~RawSupplied
     /\ (~ExplicitPathSupplied \/ (InNodeModules(call.resource) /\ TsFamily(call.resource))))
    => /\ DiscoveryFound =>
            /\ TransformerCalled
            /\ IF IncludeMatches(call.discovery.value.v.config, call.resource)
               THEN call.request.tsconfigRaw = call.discovery.value.v.config
               ELSE ~Injected /\ call.warnings = <<>>
       /\ Injected =>
            /\ DiscoveryFound
            /\ IncludeMatches(call.discovery.value.v.config, call.resource)
       /\ DiscoveryFoundNothing =>
            TransformerCalled /\ ~Injected /\ call.request.tsconfigRaw = Absent

\* A TypeScript dependency file given an explicit path still went through
\* discovery, and the configuration found did not match and was not injected.
C2_Witness ==
    /\ Invoked /\ ~RawSupplied /\ ExplicitPathSupplied
    /\ InNodeModules(call.resource) /\ TsFamily(call.resource)
    /\ DiscoveryFound
    /\ ~IncludeMatches(call.discovery.value.v.config, call.resource)
    /\ TransformerCalled /\ ~Injected

\* C3, as amended: for every file under node_modules whose extension is not
\* of the TypeScript family, resolution does not run (no cache read or write,
\* no parse, no discovery, no warning) and nothing is injected, whatever
\* tsconfig path is given; the transformer is called with the caller's own
\* tsconfigRaw, if any, unless the invocation was rejected for an invalid
\* implementation.
C3_DependencySkipped ==
    (Invoked /\ InNodeModules(call.resource) /\ ~TsFamily(call.resource))
    => /\ ResolutionDidNotRun
       /\ call.warnings = <<>>
       /\ TransformerCalled <=> ~ImplementationRejected
       /\ TransformerCalled => call.request.tsconfigRaw = call.options.tsconfigRaw

\* C3 as claimed: ... and the transformer is called.
C3_Original ==
    (Invoked /\ InNodeModules(call.resource) /\ ~TsFamily(call.resource))
    => /\ ResolutionDidNotRun
       /\ call.warnings = <<>>
       /\ TransformerCalled
       /\ call.request.tsconfigRaw = call.options.tsconfigRaw

\* A dependency file named "tsx" (no extension), given an explicit path, went
\* to the transformer with no configuration.
C3_Witness ==
    /\ Invoked /\ InNodeModules(call.resource) /\ ~TsFamily(call.resource)
    /\ call.resource.base = <<"tsx">>
    /\ ExplicitPathSupplied /\ ~RawSupplied
    /\ TransformerCalled /\ call.request.tsconfigRaw = Absent

\* C4: when the options hold a tsconfigRaw key, resolution does not run for
\* any file: no cache read or write, no parse, no discovery, no warning, and
\* the transformer receives the caller's tsconfigRaw.
C4_RawShortCircuits ==
    (Invoked /\ RawSupplied)
    => /\ ResolutionDidNotRun
       /\ call.warnings = <<>>
       /\ TransformerCalled => call.request.tsconfigRaw = call.options.tsconfigRaw

\* A project file given both a tsconfig path and the key tsconfigRaw with the
\* value undefined went to the transformer with tsconfigRaw undefined.
C4_Witness ==
    /\ Invoked /\ call.options.tsconfigRaw = Undefined
    /\ ExplicitPathSupplied /\ ~InNodeModules(call.resource)
    /\ TransformerCalled /\ call.request.tsconfigRaw = Undefined

DiscoveryFailed ==
    DiscoveryRan /\ call.discovery.thrown # Absent /\ call.discovery.thrown.instanceOfError

WrappedDiscoveryError ==
    [ name |-> "Error",
      message |-> <<"[esbuild-loader] Error parsing tsconfig.json:\n",
                    call.discovery.thrown.message>> ]

\* C5: when getTsconfig throws an error, a non-dependency file fails: done
\* got the wrapped error, alone, and the transformer is not called; for a
\* dependency file the wrapped error is a warning and the transformer is
\* called with nothing injected.
C5_DiscoveryFailure ==
    (Invoked /\ DiscoveryFailed)
    => IF InNodeModules(call.resource)
       THEN /\ call.warnings = <<WrappedDiscoveryError>>
            /\ TransformerCalled /\ call.request.tsconfigRaw = Absent
            /\ \A n \in 1..Len(inv[call.slot].done) :
                   inv[call.slot].done[n].err # WrappedDiscoveryError
       ELSE /\ inv[call.slot].done = <<Done(WrappedDiscoveryError, Absent, Absent)>>
            /\ inv[call.slot].pc = "returned"
            /\ ~TransformerCalled /\ inv[call.slot].transform = Absent
            /\ call.warnings = <<>>

\* Discovery failed for a TypeScript dependency file, which was warned about
\* and its transform then resolved.
C5_Witness ==
    /\ Invoked /\ DiscoveryFailed /\ InNodeModules(call.resource)
    /\ Len(call.warnings) = 1
    /\ inv[call.slot].pc = "returned"
    /\ inv[call.slot].done[1].err = Null

\* typeof implementation.transform, read off the options given
ReceivedType ==
    IF "transform" \in DOMAIN call.options.implementation.v
    THEN call.options.implementation.v.transform.t
    ELSE "undefined"

C6_Rejected ==
    (Invoked /\ ImplementationRejected)
    => /\ Len(inv[call.slot].done) = 1
       /\ inv[call.slot].done[1].err.name = "TypeError"
       /\ inv[call.slot].done[1].err.message[Len(inv[call.slot].done[1].err.message)]
            = ReceivedType
       /\ inv[call.slot].done[1].err.message[Len(inv[call.slot].done[1].err.message) - 1]
            = "esbuild-loader: options.implementation.transform must be an ESBuild transform function. Received "
       /\ call.options.implementation = Obj(<<>>) => ReceivedType = "undefined"
       /\ call.options.implementation = Obj([transform |-> Num(123)])
            => ReceivedType = "number"
       /\ inv[call.slot].done[1].code = Absent /\ inv[call.slot].done[1].map = Absent
       /\ inv[call.slot].pc = "returned"
       /\ ~TransformerCalled
       /\ inv[call.slot].transform = Absent /\ inv[call.slot].result = Absent
       /\ call.warnings = <<>>
       /\ ResolutionDidNotRun

C6_CacheUnchanged ==
    (call'.slot # call.slot /\ ImplementationRejected')
    => tsconfigCache' = tsconfigCache

\* C6: an implementation whose transform is not a function fails the
\* invocation at once: done is called once with a TypeError whose message
\* ends with 'Received ' and the typeof of the transform received, no
\* transformer is called, nothing is warned and the cache is left as it was.
C6_InvalidImplementation == []C6_Rejected /\ [][C6_CacheUnchanged]_vars

\* { transform: 123 } was rejected, reporting "number", with a record cached
\* by an earlier invocation still in place.
C6_Witness ==
    /\ Invoked /\ call.options.implementation = Obj([transform |-> Num(123)])
    /\ inv[call.slot].done[1].err.message[2] = "number"
    /\ DOMAIN tsconfigCache # {}

Finished(i) == inv[i].pc \in {"returned", "rejected"}

\* C7 as claimed: every invocation that has ended called done exactly once,
\* with an error and neither code nor map on failure, with no error on
\* success; done is never called twice.
C7_DoneExactlyOnce ==
    \A i \in Slots :
        /\ Len(inv[i].done) <= 1
        /\ Finished(i) =>
             /\ Len(inv[i].done) = 1
             /\ inv[i].done[1].err # Null =>
                    inv[i].done[1].code = Absent /\ inv[i].done[1].map = Absent
             /\ inv[i].done[1].err = Null <=>
                    /\ inv[i].result # Absent
                    /\ inv[i].result.map \in {Undefined, Str(""), Str(ValidMapText)}

\* C8: whenever the transformer is called, `supported` holds 'dynamic-import'
\* with the caller's value when the caller's supported map sets it and true
\* otherwise, and every other flag of the caller unchanged, and nothing else.
C8_DynamicImport ==
    TransformerCalled
    => LET given == IF call.options.supported.t = "object"
                    THEN call.options.supported.v ELSE <<>>
           sent == call.request.supported.v
       IN  /\ call.request.supported.t = "object"
           /\ DOMAIN sent = DOMAIN given \cup {"dynamic-import"}
           /\ \A f \in DOMAIN given : sent[f] = given[f]
           /\ "dynamic-import" \notin DOMAIN given => sent["dynamic-import"] = TRUE

\* The caller turned 'dynamic-import' off and the transformer was told so.
C8_Witness ==
    /\ TransformerCalled
    /\ call.options.supported.t = "object"
    /\ "dynamic-import" \in DOMAIN call.options.supported.v
    /\ call.request.supported.v["dynamic-import"] = FALSE

ExplicitKeys == {<<"esbuild-loader:", f>> : f \in FullPaths}

C9_Cache ==
    /\ DOMAIN tsconfigCache \subseteq ExplicitKeys
    /\ \A f \in FullPaths :
         /\ parseReturns[f] <= 1
         /\ parseReturns[f] = 1 <=> <<"esbuild-loader:", f>> \in DOMAIN tsconfigCache
         /\ <<"esbuild-loader:", f>> \in DOMAIN tsconfigCache
              => tsconfigCache[<<"esbuild-loader:", f>>].v.path = f
    /\ (Invoked /\ call.gets # {} /\ call.parsed = <<>>)
         => /\ call.gets = {ExplicitKey}
            /\ TransformerCalled
            /\ call.request.tsconfigRaw = tsconfigCache[ExplicitKey].v.config

C9_Step ==
    /\ \A k \in DOMAIN tsconfigCache :
         k \in DOMAIN tsconfigCache' /\ tsconfigCache'[k] = tsconfigCache[k]
    /\ \A f \in FullPaths :
         parseCalls'[f] # parseCalls[f]
         => /\ <<"esbuild-loader:", f>> \notin DOMAIN tsconfigCache
            /\ parseCalls'[f] = parseCalls[f] + 1
            /\ call'.options.tsconfig.t = "string"
            /\ PathResolve(call'.options.tsconfig.v) = f

\* C9, as amended: through any interleaving of invocations a resolved path
\* is parsed only while no record is cached for it and is parsed with
\* success at most once; that parse stores the record under 'esbuild-loader:'
\* and the resolved path, every later invocation for the path (however it is
\* spelled) is given that record without parsing, and an entry is never
\* removed or replaced.  A parse that throws stores nothing.
C9_ParsedOnce == []C9_Cache /\ [][C9_Step]_vars

\* C9 as claimed: a path is parsed at most once, and its first parse stores
\* the record.
C9_Original ==
    \A f \in FullPaths :
        /\ parseCalls[f] <= 1
        /\ parseCalls[f] = 1 => <<"esbuild-loader:", f>> \in DOMAIN tsconfigCache

\* While the first invocation was still awaiting its transformer, a second one
\* naming the same file by another spelling was given the cached record and
\* parsed nothing.
C9_Witness ==
    /\ call.slot = 2
    /\ inv[1].pc = "awaiting" /\ inv[2].pc = "awaiting"
    /\ call.options.tsconfig = Str(<<".", "tsconfig.json">>)
    /\ call.gets = {<<"esbuild-loader:", <<"", "p", "tsconfig.json">> >>}
    /\ call.parsed = <<>>
    /\ parseCalls[<<"", "p", "tsconfig.json">>] = 1
    /\ call.request.tsconfigRaw = ConfigStrict

Resolved(i) == inv[i].result # Absent

NonEmptyMap(map) == map.t = "string" /\ map.v # ""

\* C10, as amended: when the transformer resolves, done receives the code
\* and, when the result carries a non-empty serialized map, that map parsed,
\* whether or not this.sourceMap asked for one, and otherwise the empty map
\* value itself; with the default transformer a map is forwarded exactly when
\* this.sourceMap is set.  A map that does not parse fails the invocation.
C10_MapForwarded ==
    \A i \in Slots :
        Resolved(i)
        => /\ Len(inv[i].done) = 1
           /\ IF NonEmptyMap(inv[i].result.map)
              THEN IF inv[i].result.map.v = "{\"version\":3}"
                   THEN inv[i].done[1] = Done(Null, inv[i].result.code, Obj([version |-> 3]))
                   ELSE inv[i].done[1].err.name = "SyntaxError"
              ELSE inv[i].done[1] = Done(Null, inv[i].result.code, inv[i].result.map)
           /\ inv[i].transform = Fn("esbuild")
                => (inv[i].done[1].map.t = "object" <=> inv[i].sourceMap)

\* C10 as claimed: the map is forwarded, parsed, when one was produced and
\* this.sourceMap asked for it, and no map is forwarded otherwise, for any
\* transformer.
C10_Original ==
    \A i \in Slots :
        (Resolved(i) /\ inv[i].done[1].err = Null)
        => /\ Len(inv[i].done) = 1
           /\ inv[i].done[1].code = inv[i].result.code
           /\ IF NonEmptyMap(inv[i].result.map) /\ inv[i].sourceMap
              THEN inv[i].done[1].map = Obj([version |-> 3])
              ELSE inv[i].done[1].map.t # "object"

\* The default transformer, asked for a source map, resolved with one and done
\* received it parsed.
C10_Witness ==
    \E i \in Slots :
        /\ Resolved(i) /\ inv[i].sourceMap /\ inv[i].transform = Fn("esbuild")
        /\ inv[i].done = <<Done(Null, Str("js"), Obj([version |-> 3]))>>

====
